---- MODULE Spec2Model ----
(***************************************************************************)
(* Model of src/service/logs/json.rs: the JSON ingestion endpoint of the   *)
(* logs service.  One request is followed from the call of ingest to its   *)
(* return: the dispatcher gates, the row path (process_as_json) and the    *)
(* columnar path (process_as_arrow).  Collaborators that live outside the  *)
(* file (cluster role, deletion registry, schema registry, alert registry, *)
(* durable buffer, metrics) are modelled at their call boundary: every     *)
(* call is appended to the log `calls`, and what a collaborator returns is *)
(* an input drawn from a small set.                                        *)
(***************************************************************************)
EXTENDS Integers, Sequences, FiniteSets, TLC

\* ------------------------------------------------------------------ bounds
MaxRecords == 2      \* records in one request body
MaxTicks == 1        \* clock advances observed while one request runs
MaxAlerts == 1       \* alert rules the alert registry returns for a key
Now0 == 5            \* clock reading when the request arrives
HourMicros == 2      \* clock units in one hour (scale of the model's clock)

MaxNow == Now0 + MaxTicks

\* --------------------------------------------------------------- constants
None == [k |-> "none"]
Logs == "logs"                          \* StreamType::Logs
column_timestamp == "_timestamp"        \* CONFIG.common.column_timestamp
\* Field names in the order in which a record's keys are met: a name that
\* starts with an upper-case letter sorts before the event-time field.
FieldOrder == <<"A", column_timestamp, "a">>
FieldNames == {FieldOrder[n] : n \in 1..Len(FieldOrder)}

\* JSON values of a record's fields.  A string value carries the instant it
\* spells (v >= 0) or is no date at all (v = -1).
Absent == [k |-> "absent", v |-> 0]
Num(n) == [k |-> "num", v |-> n]
Str(n) == [k |-> "str", v |-> n]
Obj == [k |-> "obj", v |-> 0]
Null == [k |-> "null"]

Min(a, b) == IF a < b THEN a ELSE b

\* ------------------------------------------------------------------ inputs
\* Event times a record may carry: an hour before the arrival, the arrival
\* (spelled as a date string) and an instant the clock never reaches; or no
\* field at all, or a string that is no date.
RowTimestamps ==
    {Absent, Str(-1), Str(Now0), Num(Now0 - HourMicros), Num(MaxNow + 1)}
RowRecords == {[f \in FieldNames |->
                  IF f = column_timestamp THEN t
                  ELSE IF f = "a" THEN Num(0) ELSE Absent] : t \in RowTimestamps}

ArrowValues == {Absent, Num(1), Str(1), Str(-1), Obj}
ArrowRecords ==
    {r \in [FieldNames -> ArrowValues] :
        /\ r["A"] \in {Absent, Num(1)}
        /\ r[column_timestamp] \in {Absent, Num(1), Str(1)}
        /\ r["a"] \in {Num(1), Str(-1), Obj}}

SeqsUpTo(S, n) == UNION {[1..m -> S] : m \in 0..n}

\* arrow_schema::Field: name and data type (every field is nullable)
Field(name, type) == [name |-> name, type |-> type]
\* Schemas the registry may hold for the stream at the lookup.
ExistingSchemas ==
    { <<>>,
      <<Field(column_timestamp, "Int64"), Field("a", "Int64")>>,
      <<Field("a", "Utf8"), Field(column_timestamp, "Int64")>>,
      <<Field("a", "Int64")>> }

OrgIds == {<<"o">>}
InStreamNames == {<<"s", "-">>}
ThreadIds == {0}
AllowedUpto == {0, 1}

VARIABLES
    pc,             \* position of the request in ingest / process_as_*
    req,            \* arguments of ingest: org_id, in_stream_name, body, thread_id
    cfg,            \* CONFIG, node role, deletion registry, build features
    now,            \* the clock read by Utc::now()
    calls,          \* collaborator calls made so far, in order
    response,       \* what ingest returned (None while running)
    js,             \* locals of process_as_json
    ar,             \* locals of process_as_arrow
    hist,           \* per-record outcomes of the row loop, in body order
    registry        \* the schema the registry holds for the stream

vars == <<pc, req, cfg, now, calls, response, js, ar, hist, registry>>

Call(op, args) == [op |-> op, args |-> args]
CallsOf(op) == SelectSeq(calls, LAMBDA c : c.op = op)
NumCalls(op) == Len(CallsOf(op))

\* ------------------------------------------------- helpers outside the file
\* crate::service::ingestion::format_stream_name: every character outside
\* the constrained set becomes "_".
NameChars == {"s", "o", "_"}
format_stream_name(s) ==
    [i \in 1..Len(s) |-> IF s[i] \in NameChars THEN s[i] ELSE "_"]

\* crate::common::time::parse_timestamp_micro_from_value
ParseErr == [k |-> "err"]
parse_timestamp_micro_from_value(v) ==
    IF v.k = "num" THEN [k |-> "ok", t |-> v.v]
    ELSE IF v.k = "str" /\ v.v >= 0 THEN [k |-> "ok", t |-> v.v]
    ELSE ParseErr

\* crate::common::json::flatten_json_and_format_field: the records of the
\* model are flat objects, which flattening leaves as they are.
flatten_json_and_format_field(item) == item

get_upto_discard_error == "too old data"
parse_error_text == "invalid timestamp"

\* MetaHttpResponse::error wrapped in HttpResponse::InternalServerError
ErrorResponse(code, message, stream) ==
    [kind |-> "error", http |-> 500, code |-> code, message |-> message,
     stream |-> stream]

\* ------------------------------------------------------------------- Init
Init ==
    /\ pc = "ingest"
    /\ cfg \in [is_ingester : BOOLEAN, is_deleting : BOOLEAN,
                simple_path : BOOLEAN,
                ingest_allowed_upto : AllowedUpto]
    \* the columnar path does not read ingest_allowed_upto
    /\ cfg.simple_path => cfg.ingest_allowed_upto = 0
    /\ req \in [org_id : OrgIds, in_stream_name : InStreamNames,
                body_ok : BOOLEAN,
                body : SeqsUpTo(IF cfg.simple_path THEN ArrowRecords
                                ELSE RowRecords, MaxRecords),
                thread_id : ThreadIds]
    /\ (~req.body_ok) => req.body = <<>>
    /\ now = Now0
    /\ calls = <<>>
    /\ response = None
    /\ js = None
    /\ ar = None
    /\ hist = <<>>
    \* the row path reads the registry inside add_valid_record only
    /\ registry \in ExistingSchemas
    /\ (~cfg.simple_path) => registry = <<>>

\* The clock advances while a request is being processed.  Only the
\* advances that a later Utc::now() of the request can observe are followed.
ClockReaders == {"json_start", "json_loop", "json_check",
                 "arrow_start", "arrow_build", "arrow_write"}
Tick ==
    /\ pc \in ClockReaders
    /\ now < MaxNow
    /\ now' = now + 1
    /\ UNCHANGED <<pc, req, cfg, calls, response, js, ar, hist, registry>>

\* ----------------------------------------------------------------- ingest
\* Mutant: the deletion registry is asked before the node role.
first_failing_gate_swapped(is_ingester, is_deleting, body_ok) ==
    IF is_deleting THEN "deleting"
    ELSE IF ~is_ingester THEN "not_ingester"
    ELSE IF ~body_ok THEN "malformed"
    ELSE "pass"

\* json.rs 51-71: the gate that stops the request, "pass" when none does.
first_failing_gate(is_ingester, is_deleting, body_ok) ==
    IF ~is_ingester THEN "not_ingester"
    ELSE IF is_deleting THEN "deleting"
    ELSE IF ~body_ok THEN "malformed"
    ELSE "pass"

\* json.rs 47-78: the three gates, then the choice of the processing mode.
ingest ==
    /\ pc = "ingest"
    /\ LET stream_name == format_stream_name(req.in_stream_name)
           gate == first_failing_gate(cfg.is_ingester, cfg.is_deleting, req.body_ok)
           c1 == <<Call("is_ingester", <<>>)>>
           c2 == c1 \o <<Call("is_deleting_stream",
                              [org |-> req.org_id, stream |-> stream_name])>>
       IN  IF gate = "not_ingester"
           THEN /\ calls' = c1
                /\ response' = ErrorResponse(500, "not an ingester", <<>>)
                /\ pc' = "done"
                /\ js' = js
           ELSE IF gate = "deleting"
           THEN /\ calls' = c2
                /\ response' = ErrorResponse(500, "is being deleted", stream_name)
                /\ pc' = "done"
                /\ js' = js
           ELSE IF gate = "malformed"
           THEN /\ calls' = c2
                /\ response' = [kind |-> "Err", message |-> "json::from_slice"]
                /\ pc' = "done"
                /\ js' = js
           ELSE IF cfg.simple_path
           THEN /\ calls' = c2
                /\ response' = response
                /\ pc' = "arrow_start"
                /\ js' = js
           ELSE /\ calls' = c2
                /\ response' = response
                /\ pc' = "json_start"
                \* process_as_json(org_id, stream_name, ..) is declared as
                \* process_as_json(stream_name, org_id, ..): the arguments
                \* bind by position.
                /\ js' = [stream_name |-> req.org_id, org_id |-> stream_name]
    /\ UNCHANGED <<req, cfg, now, ar, hist, registry>>

\* -------------------------------------------------------- process_as_json
\* Partitioner (inside add_valid_record): the bucket of a record in the
\* Buffer; an empty key set gives one implicit partition.
get_partition_key(partition_keys, val) ==
    [n \in 1..Len(partition_keys) |-> val[partition_keys[n]]]

\* json::to_string of a flattened record
to_string(val) == [json |-> val]

\* super::add_valid_record, steps 4-7 of the row accumulator: the schema
\* cache absorbs the record's fields, the alert rules are evaluated (hit is
\* the last rule whose condition the record satisfies, 0 for none), the
\* serialized record is appended to its bucket and successful is incremented.
add_valid_record(l, val, hit) ==
    LET key == get_partition_key(l.partition_keys, val)
        old == IF key \in DOMAIN l.buf THEN l.buf[key] ELSE <<>>
        fields == {f \in FieldNames : val[f] # Absent}
    IN  [stream_schema_map |-> l.stream_schema_map \cup fields,
         status |-> [l.stream_status EXCEPT !.successful = @ + 1],
         buf |-> [k \in DOMAIN l.buf \cup {key} |->
                     IF k = key THEN Append(old, to_string(val)) ELSE l.buf[k]],
         trigger |-> IF hit = 0 \/ l.stream_alerts = 0 THEN None
                     ELSE [k |-> "trigger", alert |-> hit,
                           timestamp |-> val[column_timestamp].v]]

\* json.rs 87-134: the locals of the request, the schema lookup and the
\* alert lookup.  What the registries return is an input.  local_trans is
\* whether the stream has transforms registered; a build without the
\* zo_functions feature behaves as a stream without transforms.
process_as_json_start ==
    /\ pc = "json_start"
    /\ \E has_trans \in BOOLEAN,
          sch \in {[has_fields |-> FALSE, has_partition_keys |-> FALSE],
                   [has_fields |-> TRUE, has_partition_keys |-> TRUE]},
          alerts \in 0..MaxAlerts :
        LET key == <<js.org_id, Logs, js.stream_name>>
            lookup == Call("stream_schema_exists",
                           [org |-> js.org_id, stream |-> js.stream_name])
            pkeys == Call("get_stream_partition_keys", [stream |-> js.stream_name])
        IN  /\ js' = [stream_name |-> js.stream_name,
                      org_id |-> js.org_id,
                      min_ts |-> now + cfg.ingest_allowed_upto * HourMicros,
                      local_trans |-> has_trans,
                      stream_schema_map |->
                          IF sch.has_fields THEN {column_timestamp, "a"} ELSE {},
                      stream_alerts |-> alerts,
                      stream_status |-> [name |-> js.stream_name, successful |-> 0,
                                         failed |-> 0, error |-> ""],
                      trigger |-> None,
                      partition_keys |->
                          IF sch.has_partition_keys THEN <<"a">> ELSE <<>>,
                      buf |-> << >>,
                      i |-> 1,
                      value |-> None,
                      timestamp |-> 0]
            /\ calls' = calls
                        \o <<lookup>>
                        \o (IF sch.has_partition_keys THEN <<pkeys>> ELSE <<>>)
                        \o <<Call("get_stream_alerts", [key |-> key])>>
    /\ pc' = "json_loop"
    /\ UNCHANGED <<req, cfg, now, response, ar, hist, registry>>

\* What the loop did with record i: the record as the step left it, its
\* resolved event time, the clock at the step, the trigger it produced and
\* the locals before the step.
Outcome(i, what, value, ts, trig) ==
    [item |-> i, outcome |-> what, value |-> value, timestamp |-> ts,
     now |-> now, local_trigger |-> trig, before |-> js]

\* Mutant: a transform drop wipes the last error.
transform_failed_clears(l) ==
    [l EXCEPT !.stream_status.failed = @ + 1,
              !.stream_status.error = "",
              !.i = @ + 1]

\* A record rejected at json.rs 150-153 (transform drop).
transform_failed(l) ==
    [l EXCEPT !.stream_status.failed = @ + 1, !.i = @ + 1]

\* Mutant: a parse failure leaves the loop instead of continuing it.
timestamp_failed_break(l) ==
    [l EXCEPT !.stream_status.failed = @ + 1,
              !.stream_status.error = parse_error_text,
              !.i = Len(req.body) + 1]

\* A record rejected at json.rs 163-167 (timestamp parse failure).
timestamp_failed(l) ==
    [l EXCEPT !.stream_status.failed = @ + 1,
              !.stream_status.error = parse_error_text,
              !.i = @ + 1]

\* json.rs 135-170: flattening, the optional transform, and the resolution
\* of the event time of record i.
process_record_timestamp ==
    /\ pc = "json_loop"
    /\ js.i <= Len(req.body)
    /\ LET flat == flatten_json_and_format_field(req.body[js.i])
       IN \E value \in (IF js.local_trans THEN {flat, Null} ELSE {flat}) :
          LET l == [js EXCEPT !.value = value]
          IN  IF value = Null
              THEN /\ js' = transform_failed(l)
                   /\ hist' = Append(hist, Outcome(js.i, "dropped", value, 0, None))
                   /\ pc' = "json_loop"
              ELSE LET v == value[column_timestamp]
                       p == parse_timestamp_micro_from_value(v)
                   IN  IF v # Absent /\ p = ParseErr
                       THEN /\ js' = timestamp_failed(l)
                            /\ hist' = Append(hist,
                                   Outcome(js.i, "parse_failed", value, 0, None))
                            /\ pc' = "json_loop"
                       ELSE /\ js' = [l EXCEPT !.timestamp =
                                         IF v = Absent THEN now ELSE p.t]
                            /\ hist' = hist
                            /\ pc' = "json_check"
    /\ UNCHANGED <<req, cfg, now, calls, response, ar, registry>>

\* json.rs 172-173: the acceptance window, read off the clock at the check.
earlest_time == now - cfg.ingest_allowed_upto * HourMicros

\* Mutant: the boundary instant is rejected as well.
is_too_old_inclusive(timestamp, earlest) == timestamp <= earlest

is_too_old(timestamp, earlest) == timestamp < earlest

\* Mutant: the minimum event time is tracked before the window check.
stale_rejected_tracks_min(l) ==
    [l EXCEPT !.stream_status.failed = @ + 1,
              !.stream_status.error = get_upto_discard_error,
              !.min_ts = Min(l.timestamp, @),
              !.i = @ + 1]

\* A record rejected at json.rs 173-177 (stale timestamp).
stale_rejected(l) ==
    [l EXCEPT !.stream_status.failed = @ + 1,
              !.stream_status.error = get_upto_discard_error,
              !.i = @ + 1]

\* Mutant: the record keeps the timestamp field it came with.
insert_timestamp_skipped(val, timestamp) == val

\* json.rs 181-184: the resolved event time is written into the record.
insert_timestamp(val, timestamp) ==
    [val EXCEPT ![column_timestamp] = Num(timestamp)]

\* Mutant: a record without a trigger clears the candidate.
update_trigger_overwrite(trigger, local_trigger) == local_trigger

\* json.rs 200-202: the trigger candidate of the request.
update_trigger(trigger, local_trigger) ==
    IF local_trigger # None THEN local_trigger ELSE trigger

\* json.rs 172-202: the window check, then the accepted record is stamped,
\* added to the buffer and evaluated against the alert rules.
process_record_accept ==
    /\ pc = "json_check"
    /\ IF is_too_old(js.timestamp, earlest_time)
       THEN /\ js' = stale_rejected(js)
            /\ hist' = Append(hist, Outcome(js.i, "stale", js.value,
                                            js.timestamp, None))
       ELSE \E hit \in 0..js.stream_alerts :
            LET l == [js EXCEPT !.min_ts = Min(js.timestamp, @),
                                !.value = insert_timestamp(@, js.timestamp)]
                r == add_valid_record(l, l.value, hit)
            IN  /\ js' = [l EXCEPT !.stream_schema_map = r.stream_schema_map,
                                   !.stream_status = r.status,
                                   !.buf = r.buf,
                                   !.trigger = update_trigger(@, r.trigger),
                                   !.i = @ + 1]
                /\ hist' = Append(hist, Outcome(js.i, "accepted", l.value,
                                                js.timestamp, r.trigger))
    /\ pc' = "json_loop"
    /\ UNCHANGED <<req, cfg, now, calls, response, ar, registry>>

\* Mutant: the alert evaluation is also made before the handoff.
write_file_after_trigger ==
    /\ pc = "json_loop"
    /\ js.i > Len(req.body)
    /\ calls' = calls \o
          <<Call("evaluate_trigger",
                 [trigger |-> js.trigger, alerts |-> js.stream_alerts]),
            Call("write_file",
                 [buf |-> js.buf, thread_id |-> req.thread_id,
                  org |-> js.org_id, stream |-> js.stream_name, kind |-> Logs])>>
    /\ pc' = "json_trigger"
    /\ UNCHANGED <<req, cfg, now, response, js, ar, hist, registry>>

\* json.rs 205-206: the Buffer is handed to the durable buffer.
write_file ==
    /\ pc = "json_loop"
    /\ js.i > Len(req.body)
    /\ calls' = Append(calls, Call("write_file",
                    [buf |-> js.buf, thread_id |-> req.thread_id,
                     org |-> js.org_id, stream |-> js.stream_name, kind |-> Logs]))
    /\ pc' = "json_trigger"
    /\ UNCHANGED <<req, cfg, now, response, js, ar, hist, registry>>

\* json.rs 208-209: the one alert evaluation of the request.
evaluate_trigger ==
    /\ pc = "json_trigger"
    /\ calls' = Append(calls, Call("evaluate_trigger",
                    [trigger |-> js.trigger, alerts |-> js.stream_alerts]))
    /\ pc' = "json_respond"
    /\ UNCHANGED <<req, cfg, now, response, js, ar, hist, registry>>

MetricLabels(org, stream) ==
    [endpoint |-> "/_json", status |-> "200", org |-> org, stream |-> stream,
     kind |-> Logs]

\* json.rs 211-234: metrics, then the per-stream status response.
process_as_json_respond ==
    /\ pc = "json_respond"
    /\ calls' = calls \o
          <<Call("metrics_observe", MetricLabels(js.org_id, js.stream_name)),
            Call("metrics_inc", MetricLabels(js.org_id, js.stream_name))>>
    /\ response' = [kind |-> "ok", http |-> 200, code |-> 200,
                    status |-> <<js.stream_status>>]
    /\ pc' = "done"
    /\ UNCHANGED <<req, cfg, now, js, ar, hist, registry>>

\* ------------------------------------------------------- process_as_arrow
HasField(schema, name) == \E n \in 1..Len(schema) : schema[n].name = name
FieldType(schema, name) ==
    schema[CHOOSE n \in 1..Len(schema) : schema[n].name = name].type

\* arrow::json::reader::infer_json_schema_from_iterator (json.rs 255-256).
\* The kinds of values a field takes over the whole body.
KindsOf(body, f) == {body[n][f].k : n \in 1..Len(body)} \ {"absent"}

\* A field that is an object in one record and a scalar in another cannot
\* be given a type.
infer_fails(body) ==
    \E f \in FieldNames : "obj" \in KindsOf(body, f) /\ KindsOf(body, f) # {"obj"}

InferType(kinds) ==
    IF kinds = {"obj"} THEN "Struct"
    ELSE IF kinds = {"num"} THEN "Int64"
    ELSE "Utf8"

infer_json_schema(body) ==
    LET present == SelectSeq(FieldOrder, LAMBDA f : KindsOf(body, f) # {})
    IN  [n \in 1..Len(present) |->
            Field(present[n], InferType(KindsOf(body, present[n])))]

\* crate::service::schema::try_merge: the merge fails when a field name is
\* declared with two different types.
try_merge_fails(existing, inferred) ==
    \E m \in 1..Len(existing), n \in 1..Len(inferred) :
        /\ existing[m].name = inferred[n].name
        /\ existing[m].type # inferred[n].type

\* Mutant: a failed merge falls back to the existing schema.
reconcile_schema_lenient(existing, inferred) ==
    IF existing = <<>> THEN [conflict |-> FALSE, schema |-> inferred]
    ELSE [conflict |-> FALSE, schema |-> existing]

\* Mutant: a successful merge adopts the inferred fields.
reconcile_schema_adopts_inferred(existing, inferred) ==
    IF existing = <<>> THEN [conflict |-> FALSE, schema |-> inferred]
    ELSE IF try_merge_fails(existing, inferred)
    THEN [conflict |-> TRUE, schema |-> <<>>]
    ELSE [conflict |-> FALSE, schema |-> inferred]

\* json.rs 268-290: the schema the request works with, or the conflict that
\* ends it.
reconcile_schema(existing, inferred) ==
    IF existing = <<>> THEN [conflict |-> FALSE, schema |-> inferred]
    ELSE IF try_merge_fails(existing, inferred)
    THEN [conflict |-> TRUE, schema |-> <<>>]
    ELSE [conflict |-> FALSE, schema |-> existing]

\* json.rs 292-298: the event-time field is inserted at position zero when
\* the schema does not declare it.
ensure_timestamp(schema) ==
    IF HasField(schema, column_timestamp) THEN schema
    ELSE <<Field(column_timestamp, "Int64")>> \o schema

\* Decoder: one cell of a column, from the record's value of that field.
NullCell == [k |-> "null", v |-> 0]
decode_cell(type, v) ==
    IF type = "Int64" /\ v.k = "num" THEN [k |-> "Int64", v |-> v.v]
    ELSE IF type = "Utf8" /\ v.k \in {"str", "num"} THEN [k |-> "Utf8", v |-> v.v]
    ELSE IF type = "Struct" /\ v.k = "obj" THEN [k |-> "Struct", v |-> 0]
    ELSE NullCell

\* Decoder::next_batch (json.rs 309): one column per schema field.
decode_columns(schema, body) ==
    [c \in 1..Len(schema) |->
        [n \in 1..Len(body) |-> decode_cell(schema[c].type, body[n][schema[c].name])]]

\* Mutant: the decoded columns are kept as they are.
overwrite_column_zero_skipped(columns, ts, num_rows) == columns

\* json.rs 322-323: column zero is replaced by the request timestamp.
overwrite_column_zero(columns, ts, num_rows) ==
    [c \in 1..Len(columns) |->
        IF c = 1 THEN [n \in 1..num_rows |-> [k |-> "Int64", v |-> ts]]
        ELSE columns[c]]

\* RecordBatch::try_new (json.rs 325): every column must have the type its
\* schema field declares.
try_new_fails(schema, columns) ==
    \E c \in 1..Len(schema) : \E n \in 1..Len(columns[c]) :
        columns[c][n] # NullCell /\ columns[c][n].k # schema[c].type

Panic(where) == [kind |-> "panic", at |-> where]

\* json.rs 244-253: the request timestamp and the schema lookup.
process_as_arrow_start ==
    /\ pc = "arrow_start"
    /\ LET stream_name == format_stream_name(req.in_stream_name)
           existing == registry
       IN  /\ ar' = [org_id |-> req.org_id,
                     stream_name |-> stream_name,
                     ts |-> now,
                     has_fields |-> existing # <<>>,
                     existing |-> existing,
                     schema |-> <<>>,
                     fb |-> <<>>,
                     hour_key |-> 0]
           /\ calls' = Append(calls, Call("stream_schema_exists",
                           [org |-> req.org_id, stream |-> stream_name]))
    /\ pc' = "arrow_build"
    /\ UNCHANGED <<req, cfg, now, response, js, hist, registry>>

\* json.rs 255-325: inference, merge, decoding and assembly of the batch.
\* The decoder's verdict on the values is an input.
process_as_arrow_build ==
    /\ pc = "arrow_build"
    /\ \E decode_ok \in BOOLEAN :
        LET inferred == infer_json_schema(req.body)
            merged == reconcile_schema(ar.existing, inferred)
            schema == ensure_timestamp(merged.schema)
            batch == decode_columns(schema, req.body)
            final_arrays == overwrite_column_zero(batch, ar.ts, Len(req.body))
            Fail(r) == /\ response' = r
                       /\ pc' = "done"
                       /\ ar' = ar
        IN  IF infer_fails(req.body)
            THEN Fail(ErrorResponse(400, "Could not infer schema", ar.stream_name))
            ELSE IF merged.conflict
            THEN Fail(ErrorResponse(400, "Error matching schema", ar.stream_name))
            ELSE IF Len(req.body) > 0 /\ ~decode_ok
            THEN Fail(ErrorResponse(400, "Could not process request", ar.stream_name))
            ELSE IF Len(req.body) = 0
            THEN Fail(Panic("unreachable: all records are added to one rb"))
            ELSE IF try_new_fails(schema, final_arrays)
            THEN Fail(Panic("RecordBatch::try_new unwrap"))
            ELSE /\ ar' = [ar EXCEPT !.schema = schema, !.fb = final_arrays]
                 /\ response' = response
                 /\ pc' = "arrow_write"
    /\ UNCHANGED <<req, cfg, now, calls, js, hist, registry>>

\* json.rs 326: the hour bucket, read off the clock at the write.
hour_key_of(t) == t \div HourMicros

\* json.rs 326-336: the batch is written to the durable buffer.
write_for_schema ==
    /\ pc = "arrow_write"
    /\ LET hour_key == hour_key_of(now)
       IN  /\ ar' = [ar EXCEPT !.hour_key = hour_key]
           /\ calls' = calls \o
                <<Call("get_or_create_arrow",
                       [thread_id |-> req.thread_id, org |-> ar.org_id,
                        stream |-> ar.stream_name, kind |-> Logs,
                        hour_key |-> hour_key]),
                  Call("write_for_schema",
                       [schema |-> ar.schema, batch |-> ar.fb,
                        hour_key |-> hour_key])>>
    /\ pc' = "arrow_persist"
    /\ UNCHANGED <<req, cfg, now, response, js, hist, registry>>

\* Mutant: the schema is persisted by every request.
must_persist_always(l) == TRUE

\* json.rs 338: the schema is persisted for a stream without declared fields.
must_persist(l) == ~l.has_fields

\* json.rs 338-351: db::schema::set, whose result is unwrapped.
schema_set ==
    /\ pc = "arrow_persist"
    /\ IF must_persist(ar)
       THEN \E set_ok \in BOOLEAN :
            /\ calls' = Append(calls, Call("schema_set",
                            [org |-> ar.org_id, stream |-> ar.stream_name,
                             schema |-> ar.schema, created_at |-> ar.ts,
                             min_ts |-> ar.ts, ok |-> set_ok]))
            /\ IF set_ok
               THEN /\ pc' = "arrow_respond"
                    /\ response' = response
                    /\ registry' = ar.schema
               ELSE /\ pc' = "done"
                    /\ response' = Panic("db::schema::set unwrap")
                    /\ registry' = registry
       ELSE /\ calls' = calls
            /\ pc' = "arrow_respond"
            /\ response' = response
            /\ registry' = registry
    /\ UNCHANGED <<req, cfg, now, js, ar, hist>>

\* json.rs 353-372: metrics, then the success response.
process_as_arrow_respond ==
    /\ pc = "arrow_respond"
    /\ calls' = calls \o
          <<Call("metrics_observe", MetricLabels(ar.org_id, ar.stream_name)),
            Call("metrics_inc", MetricLabels(ar.org_id, ar.stream_name))>>
    /\ response' = [kind |-> "ok", http |-> 200, code |-> 200, status |-> <<>>]
    /\ pc' = "done"
    /\ UNCHANGED <<req, cfg, now, js, ar, hist, registry>>

Next ==
    \/ Tick
    \/ ingest
    \/ process_as_json_start
    \/ process_record_timestamp
    \/ process_record_accept
    \/ write_file
    \/ evaluate_trigger
    \/ process_as_json_respond
    \/ process_as_arrow_start
    \/ process_as_arrow_build
    \/ write_for_schema
    \/ schema_set
    \/ process_as_arrow_respond

Spec == Init /\ [][Next]_vars

\* ------------------------------------------- two concurrent columnar requests
\* Two requests for the same stream, each one process_as_arrow call; pc, req,
\* ar and response hold one entry per request, calls and registry are
\* shared.  The steps are the awaits of process_as_arrow: the lookup (246-253),
\* the synchronous stretch up to the write (255-336), the persist (338-351)
\* and the response (353-372).
Procs == {1, 2}
ConcBodies == {<<r>> : r \in ArrowRecords}

InitConc ==
    /\ pc = [p \in Procs |-> "arrow_start"]
    /\ cfg = [is_ingester |-> TRUE, is_deleting |-> FALSE,
              simple_path |-> TRUE, ingest_allowed_upto |-> 0]
    /\ \E org \in OrgIds, name \in InStreamNames :
          req \in [Procs -> [org_id : {org}, in_stream_name : {name},
                             body_ok : {TRUE}, body : ConcBodies,
                             thread_id : ThreadIds]]
    /\ now = Now0
    /\ calls = <<>>
    /\ response = [p \in Procs |-> None]
    /\ js = None
    /\ ar = [p \in Procs |-> None]
    /\ hist = <<>>
    /\ registry \in ExistingSchemas

\* json.rs 244-253 of request p.
conc_arrow_start(p) ==
    /\ pc[p] = "arrow_start"
    /\ LET stream_name == format_stream_name(req[p].in_stream_name)
           existing == registry
       IN  /\ ar' = [ar EXCEPT ![p] =
                        [org_id |-> req[p].org_id,
                         stream_name |-> stream_name,
                         ts |-> now,
                         has_fields |-> existing # <<>>,
                         existing |-> existing,
                         schema |-> <<>>,
                         fb |-> <<>>,
                         hour_key |-> 0]]
           /\ calls' = Append(calls, Call("stream_schema_exists",
                           [by |-> p, org |-> req[p].org_id, stream |-> stream_name]))
    /\ pc' = [pc EXCEPT ![p] = "arrow_build"]
    /\ UNCHANGED <<req, cfg, now, response, js, hist, registry>>

\* json.rs 255-325 of request p.
conc_arrow_build(p) ==
    /\ pc[p] = "arrow_build"
    /\ \E decode_ok \in BOOLEAN :
        LET l == ar[p]
            body == req[p].body
            inferred == infer_json_schema(body)
            merged == reconcile_schema(l.existing, inferred)
            schema == ensure_timestamp(merged.schema)
            batch == decode_columns(schema, body)
            final_arrays == overwrite_column_zero(batch, l.ts, Len(body))
            Fail(r) == /\ response' = [response EXCEPT ![p] = r]
                       /\ pc' = [pc EXCEPT ![p] = "done"]
                       /\ ar' = ar
        IN  IF infer_fails(body)
            THEN Fail(ErrorResponse(400, "Could not infer schema", l.stream_name))
            ELSE IF merged.conflict
            THEN Fail(ErrorResponse(400, "Error matching schema", l.stream_name))
            ELSE IF ~decode_ok
            THEN Fail(ErrorResponse(400, "Could not process request", l.stream_name))
            ELSE IF try_new_fails(schema, final_arrays)
            THEN Fail(Panic("RecordBatch::try_new unwrap"))
            ELSE /\ ar' = [ar EXCEPT ![p].schema = schema, ![p].fb = final_arrays]
                 /\ response' = response
                 /\ pc' = [pc EXCEPT ![p] = "arrow_write"]
    /\ UNCHANGED <<req, cfg, now, calls, js, hist, registry>>

\* json.rs 326-336 of request p.
conc_write_for_schema(p) ==
    /\ pc[p] = "arrow_write"
    /\ LET hour_key == hour_key_of(now)
       IN  /\ ar' = [ar EXCEPT ![p].hour_key = hour_key]
           /\ calls' = calls \o
                <<Call("get_or_create_arrow",
                       [by |-> p, thread_id |-> req[p].thread_id,
                        org |-> ar[p].org_id, stream |-> ar[p].stream_name,
                        kind |-> Logs, hour_key |-> hour_key]),
                  Call("write_for_schema",
                       [by |-> p, schema |-> ar[p].schema, batch |-> ar[p].fb,
                        hour_key |-> hour_key])>>
    /\ pc' = [pc EXCEPT ![p] = "arrow_persist"]
    /\ UNCHANGED <<req, cfg, now, response, js, hist, registry>>

\* json.rs 338-351 of request p: the registry stores what it is given.
conc_schema_set(p) ==
    /\ pc[p] = "arrow_persist"
    /\ IF must_persist(ar[p])
       THEN \E set_ok \in BOOLEAN :
            /\ calls' = Append(calls, Call("schema_set",
                            [by |-> p, org |-> ar[p].org_id,
                             stream |-> ar[p].stream_name,
                             schema |-> ar[p].schema, created_at |-> ar[p].ts,
                             min_ts |-> ar[p].ts, ok |-> set_ok]))
            /\ IF set_ok
               THEN /\ pc' = [pc EXCEPT ![p] = "arrow_respond"]
                    /\ response' = response
                    /\ registry' = ar[p].schema
               ELSE /\ pc' = [pc EXCEPT ![p] = "done"]
                    /\ response' = [response EXCEPT ![p] =
                                        Panic("db::schema::set unwrap")]
                    /\ registry' = registry
       ELSE /\ calls' = calls
            /\ pc' = [pc EXCEPT ![p] = "arrow_respond"]
            /\ response' = response
            /\ registry' = registry
    /\ UNCHANGED <<req, cfg, now, js, ar, hist>>

\* json.rs 353-372 of request p.
conc_arrow_respond(p) ==
    /\ pc[p] = "arrow_respond"
    /\ calls' = calls \o
          <<Call("metrics_observe", MetricLabels(ar[p].org_id, ar[p].stream_name)),
            Call("metrics_inc", MetricLabels(ar[p].org_id, ar[p].stream_name))>>
    /\ response' = [response EXCEPT ![p] =
                        [kind |-> "ok", http |-> 200, code |-> 200, status |-> <<>>]]
    /\ pc' = [pc EXCEPT ![p] = "done"]
    /\ UNCHANGED <<req, cfg, now, js, ar, hist, registry>>

NextConc ==
    \E p \in Procs :
        \/ conc_arrow_start(p)
        \/ conc_arrow_build(p)
        \/ conc_write_for_schema(p)
        \/ conc_schema_set(p)
        \/ conc_arrow_respond(p)

SpecConc == InitConc /\ [][NextConc]_vars

\* =================================================================== claims
RowRequest == ~cfg.simple_path /\ js # None /\ pc # "ingest"
RowDone == RowRequest /\ pc = "done"
Stream == format_stream_name(req.in_stream_name)

RECURSIVE SumRows(_, _)
SumRows(buf, keys) ==
    IF keys = {} THEN 0
    ELSE LET k == CHOOSE x \in keys : TRUE
         IN  Len(buf[k]) + SumRows(buf, keys \ {k})
\* Number of serialized rows in a Buffer.
TotalRows(buf) == SumRows(buf, DOMAIN buf)

Outcomes(what) == {n \in 1..Len(hist) : hist[n].outcome \in what}
Rejections == {"dropped", "parse_failed", "stale"}
\* The locals of the row path right after record n was dealt with.
After(n) == IF n < Len(hist) THEN hist[n + 1].before ELSE js

\* C1: a finished row-path request has looked at every record of the body;
\* successful + failed equals the number of records, the response carries
\* exactly these counters, and the Buffer handed to write_file holds
\* `successful` rows: a failing record does not stop the later ones.
C1_RowPartialSuccess ==
    RowDone =>
        LET st == response.status[1]
            handed == CallsOf("write_file")[1].args.buf
        IN  /\ Len(hist) = Len(req.body)
            /\ \A n \in 1..Len(hist) : hist[n].item = n
            /\ st.successful + st.failed = Len(req.body)
            /\ st.successful = Cardinality(Outcomes({"accepted"}))
            /\ st.failed = Cardinality(Outcomes(Rejections))
            /\ Len(response.status) = 1
            /\ TotalRows(handed) = st.successful

\* A failed record (unparsable timestamp) followed by an accepted one.
C1_Witness ==
    /\ RowDone
    /\ Len(req.body) = 2
    /\ hist[1].outcome = "parse_failed"
    /\ hist[2].outcome = "accepted"
    /\ response.status[1].successful = 1
    /\ response.status[1].failed = 1

Position(op) == CHOOSE n \in 1..Len(calls) : calls[n].op = op

\* C2: in the row path evaluate_trigger is never called while the records
\* are being processed, it is called after write_file, and a finished
\* request has called it exactly once.
C2_OneEvaluationAfterHandoff ==
    RowRequest =>
        /\ NumCalls("evaluate_trigger") <= 1
        /\ NumCalls("write_file") <= 1
        /\ pc \in {"json_start", "json_loop", "json_check"}
              => NumCalls("evaluate_trigger") = 0
        /\ NumCalls("evaluate_trigger") = 1
              => /\ NumCalls("write_file") = 1
                 /\ Position("write_file") < Position("evaluate_trigger")
                 /\ Len(hist) = Len(req.body)
        /\ pc = "done" => NumCalls("evaluate_trigger") = 1

\* Two records that both satisfied an alert rule, one evaluation.
C2_Witness ==
    /\ RowDone
    /\ Len(req.body) = 2
    /\ js.stream_alerts >= 1
    /\ hist[1].local_trigger # None
    /\ hist[2].local_trigger # None
    /\ NumCalls("evaluate_trigger") = 1

\* The trigger of the last record that produced one; None if none did.
LastTrigger ==
    LET made == {n \in 1..Len(hist) : hist[n].local_trigger # None}
    IN  IF made = {} THEN None
        ELSE hist[CHOOSE n \in made : \A m \in made : m <= n].local_trigger

\* C3: the trigger given to evaluate_trigger is the one of the last record
\* that produced a trigger; records after it that produced none, or were
\* rejected, do not clear it; if no record produced one it is None.
C3_LastTriggerWins ==
    (RowRequest /\ NumCalls("evaluate_trigger") >= 1) =>
        CallsOf("evaluate_trigger")[1].args.trigger = LastTrigger

\* The first record produced a trigger, the second was accepted without one.
C3_Witness ==
    /\ RowDone
    /\ Len(req.body) = 2
    /\ hist[1].local_trigger # None
    /\ hist[2].outcome = "accepted"
    /\ hist[2].local_trigger = None
    /\ CallsOf("evaluate_trigger")[1].args.trigger = hist[1].local_trigger

\* The lower end of the acceptance window when record n was checked.
Threshold(n) == hist[n].now - cfg.ingest_allowed_upto * HourMicros

\* C4: a record whose event time was resolved is rejected exactly when the
\* time is below now - ingest_allowed_upto (now read at the check): the
\* rejection increments failed, stores the discard error and buffers
\* nothing; the boundary instant and every later instant are accepted and
\* buffered.
C4_AcceptanceWindow ==
    RowRequest =>
        \A n \in Outcomes({"stale", "accepted"}) :
            LET h == hist[n]
            IN  /\ (h.outcome = "stale") <=> (h.timestamp < Threshold(n))
                /\ h.outcome = "stale" =>
                      /\ After(n).stream_status.failed
                            = h.before.stream_status.failed + 1
                      /\ After(n).stream_status.successful
                            = h.before.stream_status.successful
                      /\ After(n).stream_status.error = get_upto_discard_error
                      /\ After(n).buf = h.before.buf
                /\ h.outcome = "accepted" =>
                      /\ TotalRows(After(n).buf) = TotalRows(h.before.buf) + 1
                      /\ After(n).stream_status.failed
                            = h.before.stream_status.failed

\* A record exactly on the boundary was accepted, a later one was rejected
\* as stale, in the same request.
C4_Witness ==
    /\ RowDone
    /\ \E n \in Outcomes({"accepted"}) : hist[n].timestamp = Threshold(n)
    /\ Outcomes({"stale"}) # {}

\* A record dated after every clock reading of the request was accepted.
C4_FutureAccepted ==
    /\ RowDone
    /\ \E n \in Outcomes({"accepted"}) : hist[n].timestamp > MaxNow

ArrowRequest == cfg.simple_path /\ ar # None /\ pc # "ingest"
ArrowDone == ArrowRequest /\ pc = "done"
\* The inferred schema of the body conflicts with the stream's schema.
MergeConflict ==
    /\ ar.existing # <<>>
    /\ ~infer_fails(req.body)
    /\ \E f \in FieldNames :
          /\ HasField(ar.existing, f)
          /\ HasField(infer_json_schema(req.body), f)
          /\ FieldType(ar.existing, f) # FieldType(infer_json_schema(req.body), f)

\* C5: when an inferred field type conflicts with the stream's non-empty
\* schema, no batch is ever written, no schema is ever persisted, and the
\* request ends with the error response that names the stream.
C5_MergeConflictAtomic ==
    (ArrowRequest /\ MergeConflict) =>
        /\ NumCalls("write_for_schema") = 0
        /\ NumCalls("get_or_create_arrow") = 0
        /\ NumCalls("schema_set") = 0
        /\ pc \in {"arrow_build", "done"}
        /\ pc = "done" =>
              /\ response.kind = "error"
              /\ response.message = "Error matching schema"
              /\ response.stream = Stream

\* A request whose field "a" is a string while the stream declares Int64.
C5_Witness ==
    /\ ArrowDone
    /\ MergeConflict
    /\ response.kind = "error"
    /\ Len(req.body) = 2

\* The registry refused the schema of the request.
PersistFailed ==
    \E n \in 1..Len(calls) : calls[n].op = "schema_set" /\ ~calls[n].args.ok

\* C6 (the claim as stated): a columnar request that fails at request level,
\* the failure of the schema persist included, has written no batch and ends
\* with an error response; a batch is written only by requests that end in
\* the success response.
C6_NoBatchOnFailure ==
    ArrowDone =>
        /\ response.kind = "error" => NumCalls("write_for_schema") = 0
        /\ PersistFailed =>
              /\ response.kind = "error"
              /\ NumCalls("write_for_schema") = 0
        /\ NumCalls("write_for_schema") > 0 => response.kind = "ok"

SideEffects == {"stream_schema_exists", "get_stream_partition_keys",
                "get_stream_alerts", "write_file", "evaluate_trigger",
                "get_or_create_arrow", "write_for_schema", "schema_set"}

\* C7: a request stopped by the role gate, the deletion gate or the body
\* deserialization makes no schema lookup, alert lookup, buffer or batch
\* handoff, schema persist or trigger evaluation, and its outcome is that of
\* the first failing gate in the order role, deletion, deserialization.
C7_GatesStopEverything ==
    (pc # "ingest" /\ (~cfg.is_ingester \/ cfg.is_deleting \/ ~req.body_ok)) =>
        /\ pc = "done"
        /\ \A n \in 1..Len(calls) : calls[n].op \notin SideEffects
        /\ js = None /\ ar = None /\ hist = <<>>
        /\ IF ~cfg.is_ingester
           THEN /\ response = ErrorResponse(500, "not an ingester", <<>>)
                /\ NumCalls("is_deleting_stream") = 0
           ELSE IF cfg.is_deleting
           THEN response = ErrorResponse(500, "is being deleted", Stream)
           ELSE response.kind = "Err"

\* All three gates would fail; the role gate decided.
C7_Witness ==
    /\ pc = "done"
    /\ ~cfg.is_ingester /\ cfg.is_deleting /\ ~req.body_ok
    /\ response.message = "not an ingester"

\* C8 (the claim as stated): every call of ingest has recorded the request
\* duration and incremented the incoming-request counter once when it
\* returns.
C8_MetricsOnEveryReturn ==
    pc = "done" =>
        /\ NumCalls("metrics_observe") = 1
        /\ NumCalls("metrics_inc") = 1

\* C9 (the claim as stated): in the row path the status of the response is
\* named with the stream name, the alert set is loaded under
\* {org}/{kind}/{stream}, the schema is looked up for (org, stream), and
\* write_file is given the organization as organization and the stream name
\* as stream.
C9_OrgAndStreamNotInterchanged ==
    RowDone =>
        /\ response.status[1].name = Stream
        /\ CallsOf("get_stream_alerts")[1].args.key = <<req.org_id, Logs, Stream>>
        /\ CallsOf("stream_schema_exists")[1].args
              = [org |-> req.org_id, stream |-> Stream]
        /\ CallsOf("write_file")[1].args.org = req.org_id
        /\ CallsOf("write_file")[1].args.stream = Stream

\* The event time the timestamp step resolved for record n: the parsed value
\* of the explicit field, or a clock reading of the request if it was absent.
ResolvedFrom(n) ==
    LET v == req.body[n][column_timestamp]
    IN  IF v = Absent THEN {t \in Now0..hist[n].now : TRUE}
        ELSE {parse_timestamp_micro_from_value(v).t}

\* C10 (the claim as stated): after the timestamp step every record whose
\* event time was resolved holds that time in its timestamp field.
C10_TimestampFieldOfEveryRecord ==
    RowRequest =>
        \A n \in Outcomes({"stale", "accepted"}) :
            hist[n].value[column_timestamp] = Num(hist[n].timestamp)

\* The rows of a Buffer with one bucket, in the order they were appended.
RowsOf(buf) == IF DOMAIN buf = {} THEN <<>>
               ELSE buf[CHOOSE k \in DOMAIN buf : TRUE]
Accepted == SelectSeq(hist, LAMBDA h : h.outcome = "accepted")

\* C10 (amended): every record that passes the acceptance window holds its
\* resolved event time in the timestamp field, whatever the field held
\* before, and every row of the Buffer is the serialization of such a
\* record; a record rejected as stale keeps the field as it came.
C10_TimestampFieldOfAcceptedRecords ==
    (RowRequest /\ pc # "json_start") =>
        /\ \A n \in Outcomes({"accepted"}) :
              /\ hist[n].timestamp \in ResolvedFrom(n)
              /\ hist[n].value[column_timestamp] = Num(hist[n].timestamp)
        /\ \A n \in Outcomes({"stale"}) :
              hist[n].value[column_timestamp] = req.body[n][column_timestamp]
        /\ Cardinality(DOMAIN js.buf) <= 1
        /\ pc = "json_loop" =>
              /\ Len(RowsOf(js.buf)) = Len(Accepted)
              /\ \A m \in 1..Len(Accepted) :
                    /\ RowsOf(js.buf)[m] = to_string(Accepted[m].value)
                    /\ RowsOf(js.buf)[m].json[column_timestamp]
                          = Num(Accepted[m].timestamp)

\* A record whose timestamp was a date string was accepted and buffered with
\* the parsed number; a record without the field was buffered with the clock
\* reading.
C10_Witness ==
    /\ RowDone
    /\ Len(req.body) = 2
    /\ req.body[1][column_timestamp] = Str(Now0)
    /\ req.body[2][column_timestamp] = Absent
    /\ hist[1].outcome = "accepted"
    /\ hist[2].outcome = "accepted"
    /\ RowsOf(js.buf)[1].json[column_timestamp] = Num(Now0)
    /\ RowsOf(js.buf)[2].json[column_timestamp] = Num(hist[2].timestamp)

\* C11 (the claim as stated): with ingest_allowed_upto >= 0 a record
\* without the timestamp field that reaches the timestamp step is accepted,
\* whatever the clock does between the steps, and is buffered with the clock
\* reading of its timestamp step.
C11_AbsentTimestampAccepted ==
    (RowRequest /\ pc # "json_start" /\ cfg.ingest_allowed_upto >= 0) =>
        \A n \in 1..Len(hist) :
            (req.body[n][column_timestamp] = Absent /\ hist[n].outcome # "dropped")
                => /\ hist[n].outcome = "accepted"
                   /\ hist[n].value[column_timestamp] = Num(hist[n].timestamp)

\* The batch handed to the durable buffer, once it was handed over.
Written == CallsOf("write_for_schema")[1].args
ArrowWritten == ArrowRequest /\ NumCalls("write_for_schema") = 1
ArrowSuccess == ArrowDone /\ response.kind = "ok"

\* C12: the batch written by a columnar request has one row per record of
\* the body in every column, and each row of column zero holds the request
\* timestamp ts, whatever timestamps the records carried.
C12_UniformRequestTimestamp ==
    ArrowRequest =>
        /\ NumCalls("write_for_schema") <= 1
        /\ ArrowSuccess => NumCalls("write_for_schema") = 1
        /\ NumCalls("write_for_schema") = 1 =>
              /\ ar.ts \in Now0..MaxNow
              /\ Len(Written.batch) = Len(Written.schema)
              /\ \A c \in 1..Len(Written.batch) :
                    Len(Written.batch[c]) = Len(req.body)
              /\ \A n \in 1..Len(req.body) :
                    Written.batch[1][n] = [k |-> "Int64", v |-> ar.ts]

\* Two records that carry their own timestamps, written with the request's.
C12_Witness ==
    /\ ArrowSuccess
    /\ Len(req.body) = 2
    /\ req.body[1][column_timestamp] = Num(1)
    /\ req.body[2][column_timestamp] = Num(1)
    /\ Written.batch[1] = <<[k |-> "Int64", v |-> ar.ts], [k |-> "Int64", v |-> ar.ts]>>

\* C13 (the claim as stated): the schema a batch is built with has the
\* event-time field at position zero, so the column that receives the
\* request timestamp is the event-time column.
C13_TimestampAtPositionZero ==
    (ArrowRequest /\ pc # "arrow_build" /\ Len(ar.schema) > 0) =>
        ar.schema[1].name = column_timestamp

\* C14: a rejected record (transform drop, timestamp parse failure, stale
\* timestamp) increments failed and, for the two timestamp failures, sets
\* the last error; the Buffer, the schema cache, the trigger candidate, the
\* successful counter and the minimum event time stay as they were.
C14_RejectionFrame ==
    (RowRequest /\ pc # "json_start") =>
        \A n \in Outcomes(Rejections) :
            LET b == hist[n].before
                a == After(n)
            IN  /\ a.buf = b.buf
                /\ a.stream_schema_map = b.stream_schema_map
                /\ a.trigger = b.trigger
                /\ a.min_ts = b.min_ts
                /\ a.stream_status.successful = b.stream_status.successful
                /\ a.stream_status.name = b.stream_status.name
                /\ a.stream_status.failed = b.stream_status.failed + 1
                /\ a.stream_status.error =
                      IF hist[n].outcome = "dropped" THEN b.stream_status.error
                      ELSE IF hist[n].outcome = "parse_failed" THEN parse_error_text
                      ELSE get_upto_discard_error

\* An accepted record that produced a trigger, then a stale one: the buffer
\* and the candidate survive the rejection.
C14_Witness ==
    /\ RowDone
    /\ Len(req.body) = 2
    /\ hist[1].outcome = "accepted"
    /\ hist[1].local_trigger # None
    /\ hist[2].outcome = "stale"
    /\ hist[2].timestamp < hist[2].before.min_ts
    /\ js.trigger = hist[1].local_trigger
    /\ TotalRows(js.buf) = 1

\* The error text of the last timestamp failure so far, "" if there was none.
LastError ==
    LET bad == Outcomes({"parse_failed", "stale"})
        last == CHOOSE n \in bad : \A m \in bad : m <= n
    IN  IF bad = {} THEN ""
        ELSE IF hist[last].outcome = "parse_failed" THEN parse_error_text
        ELSE get_upto_discard_error

\* C15: the last error of the stream is the text of the most recent
\* timestamp parse failure or stale rejection; a transform drop stores no
\* text and accepted records do not clear it; the response reports it.
C15_LastErrorSurvives ==
    (RowRequest /\ pc \in {"json_loop", "json_trigger", "json_respond", "done"}) =>
        /\ js.stream_status.error = LastError
        /\ pc = "done" => response.status[1].error = LastError

\* A parse failure followed by a transform drop: the parse error is reported.
C15_Witness ==
    /\ RowDone
    /\ Len(req.body) = 2
    /\ hist[1].outcome = "parse_failed"
    /\ hist[2].outcome = "dropped"
    /\ response.status[1].error = parse_error_text

\* The existing schema, with the event-time field in front if it lacked one.
ExistingWithTimestamp ==
    IF \E n \in 1..Len(ar.existing) : ar.existing[n].name = column_timestamp
    THEN ar.existing
    ELSE <<Field(column_timestamp, "Int64")>> \o ar.existing

\* C16: for a stream with a non-empty schema the schema the batch is built
\* with, and the one handed to the durable buffer, is the existing schema
\* (with the event-time field in front if it lacked one): no field of the
\* inferred schema is added and no type is replaced.
C16_ExistingSchemaAuthoritative ==
    (ArrowRequest /\ ar.existing # <<>>) =>
        /\ Len(ar.schema) > 0 => ar.schema = ExistingWithTimestamp
        /\ NumCalls("write_for_schema") = 1 =>
              Written.schema = ExistingWithTimestamp

\* The stream declares only "a"; the request also carries "A", which is not
\* added.
C16_Witness ==
    /\ ArrowSuccess
    /\ ar.existing = <<Field("a", "Int64")>>
    /\ req.body[1]["A"] = Num(1)
    /\ Written.schema = <<Field(column_timestamp, "Int64"), Field("a", "Int64")>>

\* The request went past the persist step of json.rs 338-351.
PastPersist ==
    \/ pc = "arrow_respond"
    \/ pc = "done" /\ NumCalls("write_for_schema") = 1

\* C17: a columnar request that reaches the persist step persists the
\* schema exactly when the lookup found no declared fields; the persisted
\* schema carries created_at = ts, the timestamp written into the batch, and
\* the persist has completed when the success response is returned.
C17_PersistOnlyNewStream ==
    ArrowRequest =>
        /\ NumCalls("schema_set") <= 1
        /\ ar.existing # <<>> => NumCalls("schema_set") = 0
        /\ PastPersist => (NumCalls("schema_set") = 1 <=> ar.existing = <<>>)
        /\ NumCalls("schema_set") = 1 =>
              /\ CallsOf("schema_set")[1].args.created_at = ar.ts
              /\ CallsOf("schema_set")[1].args.schema = Written.schema
              /\ \A n \in 1..Len(req.body) :
                    Written.batch[1][n].v = CallsOf("schema_set")[1].args.created_at
        /\ (ArrowSuccess /\ ar.existing = <<>>) =>
              /\ CallsOf("schema_set")[1].args.ok
              /\ Position("schema_set") < Position("metrics_observe")

\* A first request for a stream: persisted once, then answered.
C17_Witness ==
    /\ ArrowSuccess
    /\ ar.existing = <<>>
    /\ NumCalls("schema_set") = 1
    /\ CallsOf("schema_set")[1].args.created_at = ar.ts

\* A request for a stream with declared fields: answered without persist.
C17_NoPersistForKnownStream ==
    /\ ArrowSuccess
    /\ ar.existing # <<>>
    /\ NumCalls("schema_set") = 0

\* C18 (the claim as stated): the hour bucket of the batch is the hour that
\* contains the request timestamp ts stored in the batch.
C18_HourKeyOfRequestTimestamp ==
    ArrowWritten =>
        /\ Written.hour_key = ar.ts \div HourMicros
        /\ CallsOf("get_or_create_arrow")[1].args.hour_key = ar.ts \div HourMicros

\* C20 (the claim as stated): a columnar request, whatever its records, the
\* empty body included, ends with the success response or with a structured
\* error response, never by aborting.
C20_ColumnarNeverAborts ==
    ArrowDone => response.kind \in {"ok", "error"}

\* Both concurrent requests have returned.
ConcDone == \A p \in Procs : pc[p] = "done"

\* C19 (the claim as stated): once two concurrent requests for a stream have
\* completed, the schema of every batch handed to the durable buffer merges
\* without type conflict with the schema the registry holds, and at most one
\* of the requests persisted the schema of the stream as its creation.
C19_ConcurrentSchemaSafe ==
    ConcDone =>
        /\ \A n \in 1..NumCalls("write_for_schema") :
              ~try_merge_fails(registry, CallsOf("write_for_schema")[n].args.schema)
        /\ Cardinality({n \in 1..NumCalls("schema_set") :
                            CallsOf("schema_set")[n].args.ok}) <= 1

====
